---- MODULE Spec2Model ----
(***************************************************************************)
(* A model of the MovieLens read-only REST API (api/main.py,               *)
(* api/query_helpers.py, api/models.py, api/schemas.py, api/database.py).  *)
(*                                                                         *)
(* Conventions.                                                            *)
(*   - A Python Optional value is NoneV (absent) or Some(v).               *)
(*   - A text is a sequence of one-character strings, so that LIKE         *)
(*     patterns, letter case and substrings are computed, not assumed.     *)
(*   - A float rating is held in tenths: 4.0 is 40, 3.9 is 39.             *)
(*   - A table is a sequence of rows: the order in which the storage       *)
(*     engine yields them.                                                 *)
(***************************************************************************)
EXTENDS Integers, Sequences, FiniteSets, TLC

VARIABLES
    store,      \* the four tables: [movies, ratings, tags, links]
    loaded,     \* the tables as the external loading process left them
    call,       \* Query Layer: the last direct call and its result
    last,       \* Transport Layer: the last request served and its response
    pc,         \* request lifecycle: the position of each request
    outcome,    \* request lifecycle: how each request's handler ended
    sessions,   \* request lifecycle: the state of the session each request made
    closes      \* request lifecycle: close() calls received by each session

vars == <<store, loaded, call, last, pc, outcome, sessions, closes>>

---------------------------------------------------------------------------
(* Bounds of the model *)

\* Number of rows a table holds at most (rows are taken from the pools below).
MaxRows == 3

\* Number of requests in flight in the lifecycle specification.
NumRequests == 2

(* Program constants *)

\* limit: int = Query(100, le=1000)
LimitCeiling == 1000

\* min_rating: Optional[float] = Query(None, ge=0.0, le=5.0), in tenths
MinRatingCeiling == 50

---------------------------------------------------------------------------
(* Python values *)

NoneV == <<>>

Some(v) == <<v>>

Min(a, b) == IF a <= b THEN a ELSE b

Max(a, b) == IF a >= b THEN a ELSE b

Range(s) == { s[i] : i \in 1..Len(s) }

\* Faulty variant of TruthyNum: the test `x is not None`, under which 0 is truthy.
TruthyNumIsNotNone(x) == x # NoneV

\* Truth value of an Optional number in `if x:` (None and 0 are falsy).
TruthyNum(x) == x # NoneV /\ x[1] # 0

\* Truth value of an Optional text in `if x:` (None and "" are falsy).
TruthyStr(x) == x # NoneV /\ Len(x[1]) > 0

---------------------------------------------------------------------------
(* Text: letter case and SQL LIKE *)

UpperLetters == <<"A", "B", "F", "P", "U", "X">>

LowerLetters == <<"a", "b", "f", "p", "u", "x">>

\* lower() of one character: ASCII letters are folded, anything else is kept.
LowerChar(c) ==
    IF \E i \in 1..Len(UpperLetters) : UpperLetters[i] = c
    THEN LowerLetters[CHOOSE i \in 1..Len(UpperLetters) : UpperLetters[i] = c]
    ELSE c

LowerStr(s) == [i \in 1..Len(s) |-> LowerChar(s[i])]

\* SQL LIKE: '%' matches any run of characters, '_' exactly one character,
\* any other character itself.
RECURSIVE LikeMatch(_, _)
LikeMatch(pattern, text) ==
    IF pattern = <<>> THEN text = <<>>
    ELSE IF Head(pattern) = "%"
         THEN LikeMatch(Tail(pattern), text)
              \/ (text # <<>> /\ LikeMatch(pattern, Tail(text)))
         ELSE /\ text # <<>>
              /\ (Head(pattern) = "_" \/ Head(pattern) = Head(text))
              /\ LikeMatch(Tail(pattern), Tail(text))

\* column.ilike(pattern): lower(column) LIKE lower(pattern); NULL never matches.
ILike(column, pattern) ==
    /\ column # NoneV
    /\ LikeMatch(LowerStr(pattern), LowerStr(column[1]))

\* f"%{text}%"
WrapPercent(text) == <<"%">> \o text \o <<"%">>

---------------------------------------------------------------------------
(* Storage schema and the rows the tables are filled from *)

AllMovies == <<
    [movieId |-> 0, title |-> <<"U", "p">>,  genres |-> Some(<<"A", "|", "b">>)],
    [movieId |-> 1, title |-> <<"u", "_">>,  genres |-> NoneV],
    [movieId |-> 2, title |-> <<"X", "p">>,  genres |-> Some(<<"B">>)],
    [movieId |-> 3, title |-> <<"%", "a">>,  genres |-> Some(<<"a">>)],
    [movieId |-> 4, title |-> <<"b">>,       genres |-> Some(<<>>)] >>

AllRatings == <<
    [userId |-> 1, movieId |-> 1, rating |-> 40, timestamp |-> 101],
    [userId |-> 2, movieId |-> 1, rating |-> 39, timestamp |-> 102],
    [userId |-> 0, movieId |-> 0, rating |-> 45, timestamp |-> 103],
    [userId |-> 1, movieId |-> 2, rating |-> 40, timestamp |-> 104],
    [userId |-> 2, movieId |-> 0, rating |-> 5,  timestamp |-> 105] >>

AllTags == <<
    [userId |-> 1, movieId |-> 1, tag |-> <<"F", "u", "n">>, timestamp |-> 201],
    [userId |-> 1, movieId |-> 1, tag |-> <<"f", "u", "n">>, timestamp |-> 202],
    [userId |-> 0, movieId |-> 0, tag |-> <<"f", "u">>,      timestamp |-> 203],
    [userId |-> 2, movieId |-> 2, tag |-> <<"f", "u", "n">>, timestamp |-> 204],
    [userId |-> 2, movieId |-> 0, tag |-> <<"F", "u">>,      timestamp |-> 205] >>

AllLinks == <<
    [movieId |-> 1, imdbId |-> Some("tt0113497"), tmdbId |-> Some(8844)],
    [movieId |-> 0, imdbId |-> NoneV,             tmdbId |-> Some(862)],
    [movieId |-> 2, imdbId |-> Some("tt0113228"), tmdbId |-> NoneV],
    [movieId |-> 3, imdbId |-> Some("tt0114885"), tmdbId |-> Some(31357)],
    [movieId |-> 4, imdbId |-> NoneV,             tmdbId |-> NoneV] >>

\* The first MaxRows rows of a pool.
Pool(all) == SubSeq(all, 1, Min(MaxRows, Len(all)))

\* Every table over a pool: any rows of it, in any order, each at most once
\* (the pools hold one row per primary key).
Tables(pool) ==
    UNION { { t \in [1..n -> Range(pool)] :
                \A i, j \in 1..n : i # j => t[i] # t[j] } : n \in 0..Len(pool) }

\* Stores in which one table varies; a Rating, Tag or Link row always
\* references a stored Movie (ForeignKey("movies.movieId")).
Stores ==
    { [movies |-> m, ratings |-> <<>>, tags |-> <<>>, links |-> <<>>] :
        m \in Tables(Pool(AllMovies)) }
    \cup
    { [movies |-> AllMovies, ratings |-> r, tags |-> Pool(AllTags),
       links |-> Pool(AllLinks)] : r \in Tables(Pool(AllRatings)) }
    \cup
    { [movies |-> AllMovies, ratings |-> Pool(AllRatings), tags |-> t,
       links |-> Pool(AllLinks)] : t \in Tables(Pool(AllTags)) }
    \cup
    { [movies |-> AllMovies, ratings |-> Pool(AllRatings), tags |-> Pool(AllTags),
       links |-> l] : l \in Tables(Pool(AllLinks)) }

---------------------------------------------------------------------------
(* Storage engine: what a query does *)

\* Faulty variant of Offset: one row too many is skipped.
OffsetSkipsOneMore(rows, n) == SubSeq(rows, Max(n, 0) + 2, Len(rows))

\* Query.offset(n): the rows after the first n (SQLite: a negative OFFSET is 0).
Offset(rows, n) == SubSeq(rows, Max(n, 0) + 1, Len(rows))

\* Query.limit(n): the first n rows (SQLite: a negative LIMIT is no limit).
Limit(rows, n) == IF n < 0 THEN rows ELSE SubSeq(rows, 1, Min(n, Len(rows)))

\* Query.first(): the first row, or None.
First(rows) == IF rows = <<>> THEN NoneV ELSE Some(Head(rows))

\* Faulty variant of AfterQueries: a query that deletes the first Movie row.
AfterQueriesDropsRow(s) ==
    IF s.movies = <<>> THEN s ELSE [s EXCEPT !.movies = Tail(@)]

\* The tables after a query ran: query(), filter(), offset(), limit(), first(),
\* all() and count() emit SELECT statements only.
AfterQueries(s) == s

---------------------------------------------------------------------------
(* Query Layer (query_helpers.py) *)

MovieIdIs(row, movie_id) == row.movieId = movie_id

get_movie(s, movie_id) ==
    LET Test(m) == MovieIdIs(m, movie_id)
    IN  First(SelectSeq(s.movies, Test))

\* The WHERE clause get_movies builds.
MovieWhere(m, title, genre) ==
    /\ TruthyStr(title) => ILike(Some(m.title), WrapPercent(title[1]))
    /\ TruthyStr(genre) => ILike(m.genres, WrapPercent(genre[1]))

get_movies(s, skip, limit, title, genre) ==
    LET Test(m) == MovieWhere(m, title, genre)
    IN  Limit(Offset(SelectSeq(s.movies, Test), skip), limit)

RatingKeyIs(row, user_id, movie_id) ==
    row.userId = user_id /\ row.movieId = movie_id

get_rating(s, user_id, movie_id) ==
    LET Test(r) == RatingKeyIs(r, user_id, movie_id)
    IN  First(SelectSeq(s.ratings, Test))

\* Faulty variant of MinRatingHolds: an exclusive bound.
MinRatingStrict(rating, min_rating) == rating > min_rating

\* Rating.rating >= min_rating
MinRatingHolds(rating, min_rating) == rating >= min_rating

\* The WHERE clause get_ratings builds.
RatingWhere(r, movie_id, user_id, min_rating) ==
    /\ TruthyNum(movie_id) => r.movieId = movie_id[1]
    /\ TruthyNum(user_id) => r.userId = user_id[1]
    /\ TruthyNum(min_rating) => MinRatingHolds(r.rating, min_rating[1])

get_ratings(s, skip, limit, movie_id, user_id, min_rating) ==
    LET Test(r) == RatingWhere(r, movie_id, user_id, min_rating)
    IN  Limit(Offset(SelectSeq(s.ratings, Test), skip), limit)

\* Faulty variant of TagTextIs: letter case is ignored.
TagTextIgnoresCase(stored, tag_text) == LowerStr(stored) = LowerStr(tag_text)

\* Tag.tag == tag_text
TagTextIs(stored, tag_text) == stored = tag_text

get_tag(s, user_id, movie_id, tag_text) ==
    LET Test(t) == /\ t.userId = user_id
                   /\ t.movieId = movie_id
                   /\ TagTextIs(t.tag, tag_text)
    IN  First(SelectSeq(s.tags, Test))

\* Faulty variant of IsNotNone: the truth value of `if x:`, falsy for 0.
IsNotNoneFalsyZero(x) == x # NoneV /\ x[1] # 0

\* `x is not None`
IsNotNone(x) == x # NoneV

\* The WHERE clause get_tags builds.
TagWhere(t, movie_id, user_id) ==
    /\ IsNotNone(movie_id) => t.movieId = movie_id[1]
    /\ IsNotNone(user_id) => t.userId = user_id[1]

get_tags(s, skip, limit, movie_id, user_id) ==
    LET Test(t) == TagWhere(t, movie_id, user_id)
    IN  Limit(Offset(SelectSeq(s.tags, Test), skip), limit)

get_link(s, movie_id) ==
    LET Test(l) == l.movieId = movie_id
    IN  First(SelectSeq(s.links, Test))

get_links(s, skip, limit) == Limit(Offset(s.links, skip), limit)

get_movie_count(s) == Len(s.movies)

get_rating_count(s) == Len(s.ratings)

get_tag_count(s) == Len(s.tags)

\* Faulty variant of get_link_count: the count of another table.
get_link_countReadsRatings(s) == Len(s.ratings)

get_link_count(s) == Len(s.links)

---------------------------------------------------------------------------
(* Inputs of the Query Layer calls *)

\* Ids asked for: those of the pools and one no row carries.
ParamIds == 0..MaxRows

OptIds == {NoneV} \cup { Some(i) : i \in ParamIds }

Skips == 0..MaxRows

Limits == (-1..MaxRows) \cup {LimitCeiling}

TitleFilters ==
    { NoneV, Some(<<>>), Some(<<"u", "P">>), Some(<<"p">>), Some(<<"_">>),
      Some(<<"%">>), Some(<<"x", "x">>) }

GenreFilters == { NoneV, Some(<<>>), Some(<<"b">>), Some(<<"a", "|">>) }

MinRatings == { NoneV, Some(0), Some(40), Some(45) }

NoCall == [fn |-> "none"]

NoRequest == [endpoint |-> "none"]

Requests == 1..NumRequests

\* The part of the state the Query Layer specification leaves alone.
TransportIdle ==
    /\ last = NoRequest
    /\ pc = [r \in Requests |-> "idle"]
    /\ outcome = [r \in Requests |-> "none"]
    /\ sessions = [r \in Requests |-> "none"]
    /\ closes = [r \in Requests |-> 0]

QInit ==
    /\ store \in Stores
    /\ loaded = store
    /\ call = NoCall
    /\ TransportIdle

Call_get_movies ==
    /\ call = NoCall
    /\ \E skip \in Skips, limit \in Limits, title \in TitleFilters, genre \in GenreFilters :
        /\ call' = [fn |-> "get_movies", skip |-> skip, limit |-> limit,
                    title |-> title, genre |-> genre,
                    result |-> get_movies(store, skip, limit, title, genre)]
        /\ store' = AfterQueries(store)
        /\ UNCHANGED <<loaded, last, pc, outcome, sessions, closes>>

Call_get_ratings ==
    /\ call = NoCall
    /\ \E skip \in Skips, limit \in Limits, movie_id \in OptIds, user_id \in OptIds,
       min_rating \in MinRatings :
        /\ call' = [fn |-> "get_ratings", skip |-> skip, limit |-> limit,
                    movie_id |-> movie_id, user_id |-> user_id,
                    min_rating |-> min_rating,
                    result |-> get_ratings(store, skip, limit, movie_id, user_id,
                                           min_rating)]
        /\ store' = AfterQueries(store)
        /\ UNCHANGED <<loaded, last, pc, outcome, sessions, closes>>

Call_get_tags ==
    /\ call = NoCall
    /\ \E skip \in Skips, limit \in Limits, movie_id \in OptIds, user_id \in OptIds :
        /\ call' = [fn |-> "get_tags", skip |-> skip, limit |-> limit,
                    movie_id |-> movie_id, user_id |-> user_id,
                    result |-> get_tags(store, skip, limit, movie_id, user_id)]
        /\ store' = AfterQueries(store)
        /\ UNCHANGED <<loaded, last, pc, outcome, sessions, closes>>

Call_get_links ==
    /\ call = NoCall
    /\ \E skip \in Skips, limit \in Limits :
        /\ call' = [fn |-> "get_links", skip |-> skip, limit |-> limit,
                    result |-> get_links(store, skip, limit)]
        /\ store' = AfterQueries(store)
        /\ UNCHANGED <<loaded, last, pc, outcome, sessions, closes>>

\* The caller takes the result; the next call may start.
Return ==
    /\ call # NoCall
    /\ call' = NoCall
    /\ UNCHANGED <<store, loaded, last, pc, outcome, sessions, closes>>

QNext ==
    \/ Call_get_movies
    \/ Call_get_ratings
    \/ Call_get_tags
    \/ Call_get_links
    \/ Return

QuerySpec == QInit /\ [][QNext]_vars

---------------------------------------------------------------------------
(* Transport Layer (main.py): responses *)

\* A handler's return value, serialised by its response_model.
Ok(body) == [status |-> 200, body |-> body, queried |-> TRUE]

\* raise HTTPException(status_code=404, detail=...), after the lookup.
NotFound(detail) == [status |-> 404, body |-> detail, queried |-> TRUE]

\* A Query(...) constraint failed: the handler body does not run.
ValidationError ==
    [status |-> 422, body |-> [msg |-> "validation error"], queried |-> FALSE]

\* skip: int = Query(0, ge=0)
SkipValid(skip) == skip >= 0

\* limit: int = Query(100, le=1000)
LimitValid(limit) == limit <= LimitCeiling

\* min_rating: Optional[float] = Query(None, ge=0.0, le=5.0)
MinRatingValid(min_rating) ==
    min_rating = NoneV \/ (min_rating[1] >= 0 /\ min_rating[1] <= MinRatingCeiling)

---------------------------------------------------------------------------
(* Response contracts (schemas.py) over the relationships (models.py) *)

\* Faulty variant of RatingsOfMovie: the join condition is missing.
RatingsOfAnyMovie(s, m) == s.ratings

\* Movie.ratings = relationship("Rating"), joined on Rating.movieId.
RatingsOfMovie(s, m) ==
    LET Test(r) == r.movieId = m.movieId
    IN  SelectSeq(s.ratings, Test)

\* Movie.tags = relationship("Tag"), joined on Tag.movieId.
TagsOfMovie(s, m) ==
    LET Test(g) == g.movieId = m.movieId
    IN  SelectSeq(s.tags, Test)

\* Movie.link = relationship("Link", uselist=False), joined on Link.movieId.
LinkOfMovie(s, m) ==
    LET Test(l) == l.movieId = m.movieId
    IN  First(SelectSeq(s.links, Test))

\* LinkBase: imdbId and tmdbId only.
LinkBase(l) == [imdbId |-> l.imdbId, tmdbId |-> l.tmdbId]

\* MovieDetailed: the movie with its ratings, tags and link nested.
MovieDetailed(s, m) ==
    [movieId |-> m.movieId, title |-> m.title, genres |-> m.genres,
     ratings |-> RatingsOfMovie(s, m),
     tags |-> TagsOfMovie(s, m),
     link |-> IF LinkOfMovie(s, m) = NoneV THEN NoneV
              ELSE Some(LinkBase(LinkOfMovie(s, m)[1]))]

\* MovieSimple: the movie's own columns.
MovieSimple(m) == [movieId |-> m.movieId, title |-> m.title, genres |-> m.genres]

AnalyticsResponse(movie_count, rating_count, tag_count, link_count) ==
    [movie_count |-> movie_count, rating_count |-> rating_count,
     tag_count |-> tag_count, link_count |-> link_count]

---------------------------------------------------------------------------
(* Transport Layer (main.py): handlers *)

root == [status |-> 200, body |-> [message |-> "API MovieLens operationnelle"],
         queried |-> FALSE]

read_movie(s, movie_id) ==
    LET movie == get_movie(s, movie_id)
    IN  IF movie = NoneV
        THEN NotFound([msg |-> "Film avec l'ID {movie_id} non trouve",
                       movie_id |-> movie_id])
        ELSE Ok(MovieDetailed(s, movie[1]))

list_movies(s, skip, limit, title, genre) ==
    IF ~(SkipValid(skip) /\ LimitValid(limit)) THEN ValidationError
    ELSE LET movies == get_movies(s, skip, limit, title, genre)
         IN  Ok([i \in 1..Len(movies) |-> MovieSimple(movies[i])])

read_rating(s, user_id, movie_id) ==
    LET rating == get_rating(s, user_id, movie_id)
    IN  IF rating = NoneV
        THEN NotFound([msg |-> "Aucune evaluation trouvee pour l'utilisateur {user_id} et le film {movie_id}",
                       user_id |-> user_id, movie_id |-> movie_id])
        ELSE Ok(rating[1])

list_ratings(s, skip, limit, movie_id, user_id, min_rating) ==
    IF ~(SkipValid(skip) /\ LimitValid(limit) /\ MinRatingValid(min_rating))
    THEN ValidationError
    ELSE Ok(get_ratings(s, skip, limit, movie_id, user_id, min_rating))

read_tag(s, user_id, movie_id, tag_text) ==
    LET result == get_tag(s, user_id, movie_id, tag_text)
    IN  IF result = NoneV
        THEN NotFound([msg |-> "Tag non trouve pour l'utilisateur {user_id}, le film {movie_id} et le tag '{tag_text}'",
                       user_id |-> user_id, movie_id |-> movie_id,
                       tag_text |-> tag_text])
        ELSE Ok(result[1])

list_tags(s, skip, limit, movie_id, user_id) ==
    IF ~(SkipValid(skip) /\ LimitValid(limit)) THEN ValidationError
    ELSE Ok(get_tags(s, skip, limit, movie_id, user_id))

read_link(s, movie_id) ==
    LET result == get_link(s, movie_id)
    IN  IF result = NoneV
        THEN NotFound([msg |-> "Aucun lien trouve pour le film avec l'ID {movie_id}",
                       movie_id |-> movie_id])
        ELSE Ok(result[1])

list_links(s, skip, limit) ==
    IF ~(SkipValid(skip) /\ LimitValid(limit)) THEN ValidationError
    ELSE Ok(get_links(s, skip, limit))

get_analytics(s) ==
    Ok(AnalyticsResponse(get_movie_count(s), get_rating_count(s),
                         get_tag_count(s), get_link_count(s)))

\* Route dispatch: the handler registered for the request's route.
Serve(s, req) ==
    LET p == req.params
    IN  CASE req.endpoint = "root" -> root
          [] req.endpoint = "read_movie" -> read_movie(s, p.movie_id)
          [] req.endpoint = "list_movies" ->
                list_movies(s, p.skip, p.limit, p.title, p.genre)
          [] req.endpoint = "read_rating" -> read_rating(s, p.user_id, p.movie_id)
          [] req.endpoint = "list_ratings" ->
                list_ratings(s, p.skip, p.limit, p.movie_id, p.user_id, p.min_rating)
          [] req.endpoint = "read_tag" ->
                read_tag(s, p.user_id, p.movie_id, p.tag_text)
          [] req.endpoint = "list_tags" ->
                list_tags(s, p.skip, p.limit, p.movie_id, p.user_id)
          [] req.endpoint = "read_link" -> read_link(s, p.movie_id)
          [] req.endpoint = "list_links" -> list_links(s, p.skip, p.limit)
          [] req.endpoint = "get_analytics" -> get_analytics(s)

---------------------------------------------------------------------------
(* Requests sent to the Transport Layer *)

ApiSkips == -1..1

ApiLimits == {-1, 0, 1, LimitCeiling, LimitCeiling + 1}

ApiMinRatings ==
    { NoneV, Some(-1), Some(0), Some(40), Some(MinRatingCeiling),
      Some(MinRatingCeiling + 1) }

TagTexts == { <<"F", "u", "n">>, <<"f", "u", "n">>, <<"f", "u">> }

ApiRequests ==
    { [endpoint |-> "root", params |-> [none |-> TRUE]] }
    \cup
    { [endpoint |-> "read_movie", params |-> [movie_id |-> i]] : i \in ParamIds }
    \cup
    { [endpoint |-> "list_movies",
       params |-> [skip |-> k, limit |-> l, title |-> t, genre |-> g]] :
        k \in ApiSkips, l \in ApiLimits, t \in {NoneV, Some(<<"p">>)},
        g \in {NoneV, Some(<<"b">>)} }
    \cup
    { [endpoint |-> "read_rating", params |-> [user_id |-> u, movie_id |-> i]] :
        u \in ParamIds, i \in ParamIds }
    \cup
    { [endpoint |-> "list_ratings",
       params |-> [skip |-> k, limit |-> l, movie_id |-> i, user_id |-> u,
                   min_rating |-> r]] :
        k \in ApiSkips, l \in ApiLimits, i \in {NoneV, Some(0), Some(1)},
        u \in {NoneV, Some(1)}, r \in ApiMinRatings }
    \cup
    { [endpoint |-> "read_tag",
       params |-> [user_id |-> u, movie_id |-> i, tag_text |-> x]] :
        u \in ParamIds, i \in ParamIds, x \in TagTexts }
    \cup
    { [endpoint |-> "list_tags",
       params |-> [skip |-> k, limit |-> l, movie_id |-> i, user_id |-> u]] :
        k \in ApiSkips, l \in ApiLimits, i \in {NoneV, Some(0), Some(1)},
        u \in {NoneV, Some(1)} }
    \cup
    { [endpoint |-> "read_link", params |-> [movie_id |-> i]] : i \in ParamIds }
    \cup
    { [endpoint |-> "list_links", params |-> [skip |-> k, limit |-> l]] :
        k \in ApiSkips, l \in ApiLimits }
    \cup
    { [endpoint |-> "get_analytics", params |-> [none |-> TRUE]] }

RequestsTo(endpoint) == { req \in ApiRequests : req.endpoint = endpoint }

---------------------------------------------------------------------------
(* ApiSpec: requests served one after the other *)

ApiInit ==
    /\ store \in Stores
    /\ loaded = store
    /\ call = NoCall
    /\ TransportIdle

\* The record of a served request.
Served(req, response) ==
    [endpoint |-> req.endpoint, params |-> req.params, response |-> response]

\* The tables after a request: only a handler that ran has queried them.
Effect(s, response) == IF response.queried THEN AfterQueries(s) ELSE s

Serve_root ==
    /\ last = NoRequest
    /\ \E req \in RequestsTo("root") :
        /\ last' = Served(req, root)
        /\ store' = Effect(store, last'.response)
    /\ UNCHANGED <<loaded, call, pc, outcome, sessions, closes>>

Serve_read_movie ==
    /\ last = NoRequest
    /\ \E req \in RequestsTo("read_movie") :
        /\ last' = Served(req, read_movie(store, req.params.movie_id))
        /\ store' = Effect(store, last'.response)
    /\ UNCHANGED <<loaded, call, pc, outcome, sessions, closes>>

Serve_list_movies ==
    /\ last = NoRequest
    /\ \E req \in RequestsTo("list_movies") :
        /\ last' = Served(req, list_movies(store, req.params.skip, req.params.limit,
                                       req.params.title, req.params.genre))
        /\ store' = Effect(store, last'.response)
    /\ UNCHANGED <<loaded, call, pc, outcome, sessions, closes>>

Serve_read_rating ==
    /\ last = NoRequest
    /\ \E req \in RequestsTo("read_rating") :
        /\ last' = Served(req, read_rating(store, req.params.user_id, req.params.movie_id))
        /\ store' = Effect(store, last'.response)
    /\ UNCHANGED <<loaded, call, pc, outcome, sessions, closes>>

Serve_list_ratings ==
    /\ last = NoRequest
    /\ \E req \in RequestsTo("list_ratings") :
        /\ last' = Served(req, list_ratings(store, req.params.skip, req.params.limit,
                                        req.params.movie_id, req.params.user_id,
                                        req.params.min_rating))
        /\ store' = Effect(store, last'.response)
    /\ UNCHANGED <<loaded, call, pc, outcome, sessions, closes>>

Serve_read_tag ==
    /\ last = NoRequest
    /\ \E req \in RequestsTo("read_tag") :
        /\ last' = Served(req, read_tag(store, req.params.user_id, req.params.movie_id,
                                    req.params.tag_text))
        /\ store' = Effect(store, last'.response)
    /\ UNCHANGED <<loaded, call, pc, outcome, sessions, closes>>

Serve_list_tags ==
    /\ last = NoRequest
    /\ \E req \in RequestsTo("list_tags") :
        /\ last' = Served(req, list_tags(store, req.params.skip, req.params.limit,
                                     req.params.movie_id, req.params.user_id))
        /\ store' = Effect(store, last'.response)
    /\ UNCHANGED <<loaded, call, pc, outcome, sessions, closes>>

Serve_read_link ==
    /\ last = NoRequest
    /\ \E req \in RequestsTo("read_link") :
        /\ last' = Served(req, read_link(store, req.params.movie_id))
        /\ store' = Effect(store, last'.response)
    /\ UNCHANGED <<loaded, call, pc, outcome, sessions, closes>>

Serve_list_links ==
    /\ last = NoRequest
    /\ \E req \in RequestsTo("list_links") :
        /\ last' = Served(req, list_links(store, req.params.skip, req.params.limit))
        /\ store' = Effect(store, last'.response)
    /\ UNCHANGED <<loaded, call, pc, outcome, sessions, closes>>

Serve_get_analytics ==
    /\ last = NoRequest
    /\ \E req \in RequestsTo("get_analytics") :
        /\ last' = Served(req, get_analytics(store))
        /\ store' = Effect(store, last'.response)
    /\ UNCHANGED <<loaded, call, pc, outcome, sessions, closes>>

\* The response is sent; the next request may arrive.
Respond ==
    /\ last # NoRequest
    /\ last' = NoRequest
    /\ UNCHANGED <<store, loaded, call, pc, outcome, sessions, closes>>

ApiNext ==
    \/ Serve_root
    \/ Serve_read_movie
    \/ Serve_list_movies
    \/ Serve_read_rating
    \/ Serve_list_ratings
    \/ Serve_read_tag
    \/ Serve_list_tags
    \/ Serve_read_link
    \/ Serve_list_links
    \/ Serve_get_analytics
    \/ Respond

ApiSpec == ApiInit /\ [][ApiNext]_vars

---------------------------------------------------------------------------
(* Properties of the Query Layer, checked under QuerySpec *)

ListFns == {"get_movies", "get_ratings", "get_tags", "get_links"}

\* The rows of the table a listing call reads that satisfy its WHERE clause,
\* in the store's order.
Matches(c) ==
    LET MovieTest(m) == MovieWhere(m, c.title, c.genre)
        RatingTest(r) == RatingWhere(r, c.movie_id, c.user_id, c.min_rating)
        TagTest(g) == TagWhere(g, c.movie_id, c.user_id)
    IN  CASE c.fn = "get_movies" -> SelectSeq(store.movies, MovieTest)
          [] c.fn = "get_ratings" -> SelectSeq(store.ratings, RatingTest)
          [] c.fn = "get_tags" -> SelectSeq(store.tags, TagTest)
          [] c.fn = "get_links" -> store.links

\* C2: for every listing operation, skip >= 0 and limit in 1..1000, the result
\* is the matching rows in the store's order with the first skip removed, cut
\* to limit rows: it has min(limit, max(0, matches - skip)) rows, its i-th row
\* is match number skip + i, and none of the first skip matches is in it.
C2_Pagination ==
    (call.fn \in ListFns /\ call.skip >= 0 /\ call.limit \in 1..LimitCeiling) =>
        LET m == Matches(call)
            res == call.result
        IN  /\ Len(res) = Min(call.limit, Max(0, Len(m) - call.skip))
            /\ Len(res) <= call.limit
            /\ \A i \in 1..Len(res) : res[i] = m[call.skip + i]
            /\ \A i \in 1..Min(call.skip, Len(m)) : m[i] \notin Range(res)

\* A listing call whose window starts after the first match and ends before
\* the last one: rows are skipped and rows are cut.
C2_Witness ==
    /\ call.fn \in ListFns
    /\ call.skip = 1
    /\ call.limit = 1
    /\ Len(Matches(call)) = 3
    /\ call.result = <<Matches(call)[2]>>

\* C4: get_ratings with skip = 0, limit at least the table size and filters
\* that are omitted or non-zero returns exactly the Rating rows with movieId
\* equal to the given one, userId equal to the given one and rating >= minRating
\* (inclusive); an omitted filter excludes no row.
C4_RatingFilters ==
    ( /\ call.fn = "get_ratings"
      /\ call.skip = 0
      /\ call.limit >= Len(store.ratings)
      /\ call.movie_id # Some(0)
      /\ call.user_id # Some(0)
      /\ call.min_rating # Some(0) ) =>
        LET Wanted(r) ==
                /\ call.movie_id # NoneV => r.movieId = call.movie_id[1]
                /\ call.user_id # NoneV => r.userId = call.user_id[1]
                /\ call.min_rating # NoneV => r.rating >= call.min_rating[1]
        IN  call.result = SelectSeq(store.ratings, Wanted)

\* minRating = 4.0 over a table holding a 4.0 and a 3.9: the 4.0 is returned,
\* the 3.9 is not.
C4_Witness ==
    /\ call.fn = "get_ratings"
    /\ call.skip = 0
    /\ call.limit >= Len(store.ratings)
    /\ call.movie_id = Some(1)
    /\ call.user_id = NoneV
    /\ call.min_rating = Some(40)
    /\ \E r \in Range(store.ratings) : r.movieId = 1 /\ r.rating = 39
    /\ \E r \in Range(call.result) : r.rating = 40
    /\ \A r \in Range(call.result) : r.rating # 39

\* C5: in get_ratings a filter given as 0 (movieId, userId or minRating) is
\* treated as absent: the result equals that of the same call with the filter
\* omitted, also when rows with movieId 0 or userId 0 are stored.
C5_ZeroFilterIgnored ==
    call.fn = "get_ratings" =>
        /\ call.movie_id = Some(0) =>
             call.result = get_ratings(store, call.skip, call.limit, NoneV,
                                       call.user_id, call.min_rating)
        /\ call.user_id = Some(0) =>
             call.result = get_ratings(store, call.skip, call.limit,
                                       call.movie_id, NoneV, call.min_rating)
        /\ call.min_rating = Some(0) =>
             call.result = get_ratings(store, call.skip, call.limit,
                                       call.movie_id, call.user_id, NoneV)

\* movieId = 0 over a table holding a row of movie 0 and a row of another
\* movie: both are returned.
C5_Witness ==
    /\ call.fn = "get_ratings"
    /\ call.movie_id = Some(0)
    /\ call.user_id = NoneV
    /\ call.min_rating = NoneV
    /\ \E r \in Range(call.result) : r.movieId = 0
    /\ \E r \in Range(call.result) : r.movieId # 0

\* Whether text holds sub as a run of consecutive characters, letter case
\* ignored; the empty text is held by every text.
ContainsIgnoreCase(text, sub) ==
    \E i \in 0..(Len(text) - Len(sub)) :
        LowerStr(SubSeq(text, i + 1, i + Len(sub))) = LowerStr(sub)

\* C6: get_movies with skip = 0 and limit at least the table size returns
\* exactly the movies whose title holds the title text and whose genres hold
\* the genre text as literal substrings, letter case ignored ('%' and '_'
\* included); the filters combine with AND; an empty or omitted filter excludes
\* no movie.
C6_LiteralSubstring ==
    ( /\ call.fn = "get_movies"
      /\ call.skip = 0
      /\ call.limit >= Len(store.movies) ) =>
        LET Wanted(m) ==
                /\ (call.title # NoneV /\ call.title[1] # <<>>) =>
                       ContainsIgnoreCase(m.title, call.title[1])
                /\ (call.genre # NoneV /\ call.genre[1] # <<>>) =>
                       /\ m.genres # NoneV
                       /\ ContainsIgnoreCase(m.genres[1], call.genre[1])
        IN  call.result = SelectSeq(store.movies, Wanted)

\* C11: get_tags with skip = 0 and limit at least the table size returns
\* exactly the Tag rows that satisfy every supplied filter, a filter being
\* supplied whenever it is not None, the value 0 included: movieId = 0 keeps
\* only tags of movie 0 and userId = 0 only tags of user 0 (in get_ratings a 0
\* filter is ignored); the filters combine with AND and the tag text is not
\* filtered.
C11_TagFilters ==
    /\ ( /\ call.fn = "get_tags"
         /\ call.skip = 0
         /\ call.limit >= Len(store.tags) ) =>
           LET Wanted(g) ==
                   /\ call.movie_id # NoneV => g.movieId = call.movie_id[1]
                   /\ call.user_id # NoneV => g.userId = call.user_id[1]
           IN  /\ call.result = SelectSeq(store.tags, Wanted)
               /\ call.movie_id = Some(0) =>
                     \A g \in Range(call.result) : g.movieId = 0
               /\ call.user_id = Some(0) =>
                     \A g \in Range(call.result) : g.userId = 0
    /\ ( /\ call.fn = "get_ratings"
         /\ call.skip = 0
         /\ call.limit >= Len(store.ratings)
         /\ call.movie_id = Some(0)
         /\ call.user_id = NoneV
         /\ call.min_rating = NoneV ) => call.result = store.ratings

\* movieId = 0 over a table holding a tag of movie 0 and tags of another movie:
\* the tag of movie 0 is returned, the others are not.
C11_Witness ==
    /\ call.fn = "get_tags"
    /\ call.skip = 0
    /\ call.limit >= Len(store.tags)
    /\ call.movie_id = Some(0)
    /\ call.user_id = NoneV
    /\ \E g \in Range(store.tags) : g.movieId # 0
    /\ call.result # <<>>
    /\ \A g \in Range(call.result) : g.movieId = 0

---------------------------------------------------------------------------
(* Properties of the Transport Layer, checked under ApiSpec *)

ListEndpoints == {"list_movies", "list_ratings", "list_tags", "list_links"}

\* C1: on every listing endpoint a request whose limit is not in 1..1000, whose
\* skip is negative or (for /ratings) whose minRating is outside 0.0..5.0 is
\* rejected with a validation error and its Query Layer function is not
\* invoked; no response carries more than 1000 rows.
C1_InvalidListingRejected ==
    last.endpoint \in ListEndpoints =>
        /\ ( \/ last.params.limit \notin 1..LimitCeiling
             \/ last.params.skip < 0
             \/ /\ last.endpoint = "list_ratings"
                /\ last.params.min_rating # NoneV
                /\ last.params.min_rating[1] \notin 0..MinRatingCeiling )
           => (last.response.status = 422 /\ ~last.response.queried)
        /\ last.response.status = 200 => Len(last.response.body) <= LimitCeiling

\* C3: a singular lookup answers 404, with a message carrying every requested
\* key value, exactly when no row has all the requested key components (tag
\* text compared as a full, case-sensitive string); otherwise it answers 200
\* with a row whose key components are the requested ones.
C3_NotFoundIffAbsent ==
    LET p == last.params
        resp == last.response
        Settles(exists, named, carried) ==
            /\ resp.status = 404 <=> ~exists
            /\ resp.status = 404 => named
            /\ exists => (resp.status = 200 /\ carried)
    IN  /\ last.endpoint = "read_movie" =>
             Settles(\E m \in Range(store.movies) : m.movieId = p.movie_id,
                     resp.body.movie_id = p.movie_id,
                     resp.body.movieId = p.movie_id)
        /\ last.endpoint = "read_rating" =>
             Settles(\E r \in Range(store.ratings) :
                         r.userId = p.user_id /\ r.movieId = p.movie_id,
                     resp.body.user_id = p.user_id /\ resp.body.movie_id = p.movie_id,
                     resp.body.userId = p.user_id /\ resp.body.movieId = p.movie_id)
        /\ last.endpoint = "read_tag" =>
             Settles(\E g \in Range(store.tags) :
                         /\ g.userId = p.user_id
                         /\ g.movieId = p.movie_id
                         /\ g.tag = p.tag_text,
                     /\ resp.body.user_id = p.user_id
                     /\ resp.body.movie_id = p.movie_id
                     /\ resp.body.tag_text = p.tag_text,
                     /\ resp.body.userId = p.user_id
                     /\ resp.body.movieId = p.movie_id
                     /\ resp.body.tag = p.tag_text)
        /\ last.endpoint = "read_link" =>
             Settles(\E l \in Range(store.links) : l.movieId = p.movie_id,
                     resp.body.movie_id = p.movie_id,
                     resp.body.movieId = p.movie_id)

\* The tag "Fun" of user 1 on movie 1 is stored, "fun" is not, and the request
\* for "fun" is answered 404.
C3_Witness ==
    /\ last.endpoint = "read_tag"
    /\ last.params = [user_id |-> 1, movie_id |-> 1, tag_text |-> <<"f", "u", "n">>]
    /\ \E g \in Range(store.tags) :
           g.userId = 1 /\ g.movieId = 1 /\ g.tag = <<"F", "u", "n">>
    /\ last.response.status = 404
    /\ last.response.body.tag_text = <<"f", "u", "n">>

\* C7: the detailed response of read_movie for a stored movieId nests exactly
\* the Rating rows and exactly the Tag rows with that movieId, each once, and a
\* link exactly when a Link row with that movieId is stored (then that row's).
C7_NestedRows ==
    (last.endpoint = "read_movie" /\ last.response.status = 200) =>
        LET id == last.params.movie_id
            body == last.response.body
            ratings == { r \in Range(store.ratings) : r.movieId = id }
            tags == { g \in Range(store.tags) : g.movieId = id }
            links == { l \in Range(store.links) : l.movieId = id }
        IN  /\ body.movieId = id
            /\ Range(body.ratings) = ratings
            /\ Len(body.ratings) = Cardinality(ratings)
            /\ Range(body.tags) = tags
            /\ Len(body.tags) = Cardinality(tags)
            /\ body.link # NoneV <=> links # {}
            /\ body.link # NoneV =>
                 \E l \in links : body.link[1] = [imdbId |-> l.imdbId,
                                                  tmdbId |-> l.tmdbId]

\* Movie 1 is returned with its two ratings, its tags and its link while a
\* rating of another movie is stored.
C7_Witness ==
    /\ last.endpoint = "read_movie"
    /\ last.params.movie_id = 1
    /\ last.response.status = 200
    /\ Len(last.response.body.ratings) = 2
    /\ Len(last.response.body.tags) = 2
    /\ last.response.body.link # NoneV
    /\ \E r \in Range(store.ratings) : r.movieId # 1
    /\ \E g \in Range(store.tags) : g.movieId # 1

\* C8: /analytics reports four counts, each the number of rows of the table
\* it is named after, whatever requests were served before.
C8_AnalyticsCounts ==
    last.endpoint = "get_analytics" =>
        /\ last.response.status = 200
        /\ last.response.body.movie_count = Len(store.movies)
        /\ last.response.body.rating_count = Len(store.ratings)
        /\ last.response.body.tag_count = Len(store.tags)
        /\ last.response.body.link_count = Len(store.links)

\* An /analytics response over tables of different sizes.
C8_Witness ==
    /\ last.endpoint = "get_analytics"
    /\ last.response.body.movie_count = 5
    /\ last.response.body.rating_count = 1
    /\ last.response.body.tag_count = 3
    /\ last.response.body.link_count = 3

---------------------------------------------------------------------------
(* Request lifecycle: get_db around each handler, requests interleaved *)

\* Requests that depend on get_db (every route but "/"), one or two per way a
\* route can end: the lifecycle reads only how the handler ended.
SessionRequests ==
    { req \in ApiRequests :
        LET p == req.params
            Has(f) == f \in DOMAIN p
        IN  /\ req.endpoint # "root"
            /\ Has("skip") => (p.skip \in {-1, 0} /\ p.limit \in {1, LimitCeiling + 1})
            /\ Has("title") => (p.title = NoneV /\ p.genre = NoneV)
            /\ Has("min_rating") => p.min_rating \in {NoneV, Some(MinRatingCeiling + 1)}
            /\ (Has("skip") /\ Has("movie_id")) =>
                  (p.movie_id = NoneV /\ p.user_id = NoneV)
            /\ (~Has("skip") /\ Has("user_id")) => p.user_id = 1 }

\* Whether a table holds the first rows of the list its pool is taken from.
IsPrefix(table, all) == table = SubSeq(all, 1, Len(table))

\* The stores of the lifecycle specification: one store per number of rows of
\* the table that varies (the lifecycle reads only whether a handler found its
\* rows).
LifecycleStores ==
    { s \in Stores :
        /\ IsPrefix(s.movies, AllMovies)
        /\ IsPrefix(s.ratings, AllRatings)
        /\ IsPrefix(s.tags, AllTags)
        /\ IsPrefix(s.links, AllLinks) }

\* How a response ends the handler, as get_db sees it at its yield.
OutcomeOf(response) ==
    CASE response.status = 200 -> "ok"
      [] response.status = 404 -> "not_found"
      [] response.status = 422 -> "invalid"

\* Faulty variant of SessionAfterExit: db.close() after the yield without
\* try/finally, which an exception in the handler skips.
SessionAfterExitNoFinally(how) == IF how = "ok" THEN "closed" ELSE "open"

\* get_db after its yield: `finally: db.close()` runs however the request ended.
SessionAfterExit(how) == "closed"

Init ==
    /\ store \in LifecycleStores
    /\ loaded = store
    /\ call = NoCall
    /\ TransportIdle

\* get_db up to its yield: db = SessionLocal().
Acquire(r) ==
    /\ pc[r] = "idle"
    /\ pc' = [pc EXCEPT ![r] = "open"]
    /\ sessions' = [sessions EXCEPT ![r] = "open"]
    /\ UNCHANGED <<store, loaded, call, last, outcome, closes>>

\* A parameter violates its Query(...) constraint: the handler is not called.
Reject(r) ==
    /\ pc[r] = "open"
    /\ \E req \in SessionRequests :
        /\ Serve(store, req).status = 422
        /\ outcome' = [outcome EXCEPT ![r] = OutcomeOf(Serve(store, req))]
    /\ pc' = [pc EXCEPT ![r] = "exiting"]
    /\ UNCHANGED <<store, loaded, call, last, sessions, closes>>

\* The handler runs: it returns, or raises HTTPException(404).
Handle(r) ==
    /\ pc[r] = "open"
    /\ \E req \in SessionRequests :
        /\ Serve(store, req).status # 422
        /\ outcome' = [outcome EXCEPT ![r] = OutcomeOf(Serve(store, req))]
        /\ store' = Effect(store, Serve(store, req))
    /\ pc' = [pc EXCEPT ![r] = "exiting"]
    /\ UNCHANGED <<loaded, call, last, sessions, closes>>

\* The handler runs and its storage query raises.
StorageFailure(r) ==
    /\ pc[r] = "open"
    /\ outcome' = [outcome EXCEPT ![r] = "error"]
    /\ pc' = [pc EXCEPT ![r] = "exiting"]
    /\ UNCHANGED <<store, loaded, call, last, sessions, closes>>

\* get_db after its yield.
Release(r) ==
    /\ pc[r] = "exiting"
    /\ sessions' = [sessions EXCEPT ![r] = SessionAfterExit(outcome[r])]
    /\ closes' = [closes EXCEPT ![r] = IF sessions'[r] = "closed" THEN @ + 1 ELSE @]
    /\ pc' = [pc EXCEPT ![r] = "done"]
    /\ UNCHANGED <<store, loaded, call, last, outcome>>

\* "/" has no get_db dependency: no session is made.
HealthCheck(r) ==
    /\ pc[r] = "idle"
    /\ outcome' = [outcome EXCEPT ![r] = OutcomeOf(root)]
    /\ pc' = [pc EXCEPT ![r] = "done"]
    /\ UNCHANGED <<store, loaded, call, last, sessions, closes>>

Next ==
    \E r \in Requests :
        \/ Acquire(r)
        \/ Reject(r)
        \/ Handle(r)
        \/ StorageFailure(r)
        \/ Release(r)
        \/ HealthCheck(r)

Spec == Init /\ [][Next]_vars

\* The server runs a started request to its end: the handler finishes one way
\* or another and the dependency's exit code runs.
FairSpec ==
    /\ Spec
    /\ \A r \in Requests :
        /\ WF_vars(Reject(r) \/ Handle(r) \/ StorageFailure(r))
        /\ WF_vars(Release(r))

---------------------------------------------------------------------------
(* Properties of the request lifecycle *)

\* C9: every request that acquires a session through get_db eventually
\* releases it, exactly once, however its handler ended (return, 404, storage
\* exception, rejected parameters); a request's session stays open while the
\* request runs whatever the other requests do, and once every request has
\* completed no session is open.
C9_ScopedRelease ==
    /\ [](\A r \in Requests :
            /\ pc[r] \in {"open", "exiting"} => (sessions[r] = "open" /\ closes[r] = 0)
            /\ (pc[r] = "done" /\ sessions[r] # "none") =>
                  (sessions[r] = "closed" /\ closes[r] = 1)
            /\ closes[r] <= 1)
    /\ []((\A r \in Requests : pc[r] = "done") =>
            (\A r \in Requests : sessions[r] # "open"))
    /\ \A r \in Requests :
          (sessions[r] = "open") ~> (sessions[r] = "closed" /\ closes[r] = 1)

\* A request that ended in a 404 and one that ended in a storage exception
\* have both completed, each with its session closed once.
C9_Witness ==
    \E r1, r2 \in Requests :
        /\ pc[r1] = "done" /\ outcome[r1] = "not_found"
        /\ pc[r2] = "done" /\ outcome[r2] = "error"
        /\ sessions[r1] = "closed" /\ closes[r1] = 1
        /\ sessions[r2] = "closed" /\ closes[r2] = 1

\* C10: whatever requests were served, in whatever interleaving and however
\* they ended, the four tables are as the loading process left them.
C10_TablesUnchanged == store = loaded

\* Two requests have completed, one that queried the tables successfully and
\* one that failed, over tables that hold rows.
C10_Witness ==
    \E r1, r2 \in Requests :
        /\ pc[r1] = "done" /\ outcome[r1] = "ok" /\ sessions[r1] = "closed"
        /\ pc[r2] = "done" /\ outcome[r2] \in {"not_found", "invalid", "error"}
        /\ store.movies # <<>>

====
